---- MODULE Spec2Model ----
(***************************************************************************)
(* Message-handling pipeline of Streamline-comms:                          *)
(*   runtime/rag_service.py  (handle_message and its helpers)              *)
(*   llm/llm_client.py       (LLMClient: bounded retry + defensive parse)  *)
(*                                                                         *)
(* Strings built with f-strings are modelled as sequences of tokens, so a  *)
(* substituted value is visible as one element of the sequence.  The em    *)
(* dash of the source's literals is written '-'.                           *)
(***************************************************************************)
EXTENDS Integers, Sequences, FiniteSets, TLC

(***************************************************************************)
(* Program constants                                                       *)
(***************************************************************************)
RETRY_COUNT == 2

RETRY_BACKOFF == 1

TOP_K == 2

DEFAULT_FREE_LEADS == 250

(***************************************************************************)
(* Bounds of the model                                                     *)
(***************************************************************************)
\* largest month-to-date count the datastore answers with (besides 250)
MaxCount == 3

\* Python's None where a string is expected
NoneStr == "None"

(***************************************************************************)
(* Results of a call: a returned value or a raised exception               *)
(***************************************************************************)
Ret(v) == [kind |-> "return", exc |-> "", value |-> v]

Raise(e, m) == [kind |-> "raise", exc |-> e, value |-> m]

(***************************************************************************)
(* JSON values, tagged by their Python type after res.json()               *)
(***************************************************************************)
JNull == [t |-> "null"]

JStr(s) == [t |-> "str", s |-> s]

JInt(n) == [t |-> "int", n |-> n]

JList(q) == [t |-> "list", v |-> q]

JDict(f) == [t |-> "dict", v |-> f]

EmptyMap == [k \in {} |-> JNull]

\* Python truthiness: `not x` is true for None, "", 0, [] and {}
Falsy(j) ==
  CASE j.t = "null" -> TRUE
    [] j.t = "str"  -> j.s = ""
    [] j.t = "int"  -> j.n = 0
    [] j.t = "list" -> Len(j.v) = 0
    [] j.t = "dict" -> DOMAIN j.v = {}

HasKey(d, k) == k \in DOMAIN d.v

(***************************************************************************)
(* Response bodies the completion provider can answer with.  A body is     *)
(* named by its raw text; BodyJson is what res.json() makes of it.         *)
(***************************************************************************)
UnparseableBodies == {"<html>Bad Gateway</html>"}

ParseableBodies ==
  { "msg_content", "legacy_text", "msg_and_text", "msg_not_map_text",
    "neither", "choices_empty", "choices_null", "no_choices",
    "no_choices_error", "no_choices_message", "no_choices_both",
    "top_level_list", "choice_null", "choice_int", "choices_int",
    "choices_map" }

Bodies == UnparseableBodies \cup ParseableBodies

BodyJson(b) ==
  CASE b = "msg_content" ->
         JDict([choices |-> JList(<<JDict([message |-> JDict([content |-> JStr("hi from message")])])>>)])
    [] b = "legacy_text" ->
         JDict([choices |-> JList(<<JDict([text |-> JStr("hi from text")])>>)])
    [] b = "msg_and_text" ->
         JDict([choices |-> JList(<<JDict([message |-> JDict([content |-> JStr("hi from message")]),
                                          text |-> JStr("hi from text")])>>)])
    [] b = "msg_not_map_text" ->
         JDict([choices |-> JList(<<JDict([message |-> JStr("plain"),
                                          text |-> JStr("hi from text")])>>)])
    [] b = "neither" ->
         JDict([choices |-> JList(<<JDict([index |-> JInt(0)])>>)])
    [] b = "choices_empty" -> JDict([choices |-> JList(<<>>)])
    [] b = "choices_null" -> JDict([choices |-> JNull])
    [] b = "no_choices" -> JDict([id |-> JStr("x")])
    [] b = "no_choices_error" -> JDict([error |-> JStr("quota exceeded")])
    [] b = "no_choices_message" -> JDict([message |-> JStr("model not found")])
    [] b = "no_choices_both" ->
         JDict([error |-> JStr("quota exceeded"), message |-> JStr("model not found")])
    [] b = "top_level_list" -> JList(<<>>)
    [] b = "choice_null" -> JDict([choices |-> JList(<<JNull>>)])
    [] b = "choice_int" -> JDict([choices |-> JList(<<JInt(7)>>)])
    [] b = "choices_int" -> JDict([choices |-> JInt(5)])
    [] b = "choices_map" -> JDict([choices |-> JDict([a |-> JInt(1)])])

\* str(x) inside an f-string: a JSON string prints as its text, anything
\* else as the printed structure (named here by the body it came from)
Show(j, b) == IF j.t = "str" THEN j.s ELSE b

\* data.get("error") or data.get("message") or data
ErrInfo(data, b) ==
  IF HasKey(data, "error") /\ ~Falsy(data.v["error"]) THEN Show(data.v["error"], b)
  ELSE IF HasKey(data, "message") /\ ~Falsy(data.v["message"]) THEN Show(data.v["message"], b)
  ELSE b

\* x[0] on a truthy value
Index0(j) ==
  CASE j.t = "list" -> Ret(j.v[1])
    [] j.t = "dict" -> Raise("KeyError", <<"0">>)
    [] OTHER        -> Raise("TypeError", <<"object is not subscriptable">>)

\* the extraction from the first choice (llm_client.py 66-73)
ExtractChoice(choice) ==
  IF choice.t # "dict"
  THEN \* `"message" in choice` on None or a number
       Raise("TypeError", <<"argument is not iterable">>)
  ELSE IF /\ HasKey(choice, "message")
          /\ choice.v["message"].t = "dict"
          /\ HasKey(choice.v["message"], "content")
       THEN Ret(<<choice.v["message"].v["content"].s>>)
       ELSE IF HasKey(choice, "text")
            THEN Ret(<<choice.v["text"].s>>)
            ELSE Raise("LLMError", <<"Unable to extract content from response">>)

\* LLMClient._parse_response
ParseResponse(res) ==
  IF res.body \in UnparseableBodies
  THEN Raise("LLMError", <<"Invalid JSON response (status ", ToString(res.status), "): ", res.body>>)
  ELSE LET data == BodyJson(res.body) IN
       IF data.t # "dict"
       THEN Raise("LLMError", <<"Unexpected response shape: ", res.body>>)
       ELSE IF ~HasKey(data, "choices") \/ Falsy(data.v["choices"])
            THEN Raise("LLMError", <<"LLM returned no choices. Info: ", ErrInfo(data, res.body)>>)
            ELSE LET first == Index0(data.v["choices"]) IN
                 IF first.kind = "raise" THEN first ELSE ExtractChoice(first.value)

(***************************************************************************)
(* The completion provider as seen by one requests.post                    *)
(***************************************************************************)
NetExceptions == {"ConnectionError", "Timeout"}

Statuses == {200, 400, 500, 503}

NetOutcome(e) == [kind |-> "exc", exc |-> e, status |-> 0, body |-> ""]

Response(s, b) == [kind |-> "res", exc |-> "", status |-> s, body |-> b]

NoResponse == [kind |-> "none", exc |-> "", status |-> 0, body |-> ""]

\* bodies that come with an error status: an error page or a JSON error
ErrorBodies == {"<html>Bad Gateway</html>", "no_choices_error"}

ProviderOutcomes ==
  {NetOutcome(e) : e \in NetExceptions}
    \cup {Response(200, b) : b \in Bodies}
    \cup {Response(s, b) : s \in Statuses \ {200}, b \in ErrorBodies}

Providers == {"groq", "together"}

ProviderLabel(p) == IF p = "groq" THEN "Groq" ELSE "Together"

\* os.getenv("LLM_PROVIDER"): unset (None) or any string
ProviderSettings == {NoneStr, "", "groq", "together", "openai", "Groq", "groq "}

\* LLMClient.__init__ refusing only an unset LLM_PROVIDER
LLMClientInit_anySetting(setting) ==
  IF setting = NoneStr
  THEN Raise("RuntimeError",
             <<"LLM_PROVIDER not configured. Set LLM_PROVIDER=groq|together in .env">>)
  ELSE Ret([provider |-> setting])

\* LLMClient.__init__: the object, or the exception that leaves the constructor
LLMClientInit(setting) ==
  IF setting \notin {"groq", "together"}
  THEN Raise("RuntimeError",
             <<"LLM_PROVIDER not configured. Set LLM_PROVIDER=groq|together in .env">>)
  ELSE Ret([provider |-> setting])

\* LLMClient.ask 25-29: the method the call is handed to
AskDispatch(client) ==
  IF client.provider = "groq" THEN Ret("_ask_groq")
  ELSE IF client.provider = "together" THEN Ret("_ask_together")
  ELSE Raise("LLMError", <<"Unsupported provider">>)

(***************************************************************************)
(* LLMClient._post_with_retries, as a function of the frame and of the     *)
(* outcome of the POST it issues.  frame.last_exc = <<>> is None.          *)
(***************************************************************************)
NewFrame ==
  [attempt |-> 0, last_exc |-> <<>>, res |-> NoResponse,
   posts |-> <<>>, sleeps |-> <<>>]

\* PostIter with the retry test `status_code >= 400`: client errors are
\* retried like server errors
PostIter_retry4xx(f, o) ==
  LET g == [f EXCEPT !.posts = Append(@, o)] IN
  IF o.kind = "exc"
  THEN [g EXCEPT !.last_exc = <<o.exc>>,
                 !.sleeps = Append(@, RETRY_BACKOFF * (f.attempt + 1)),
                 !.attempt = @ + 1]
  ELSE IF o.status >= 400 /\ f.attempt < RETRY_COUNT
       THEN [g EXCEPT !.last_exc = <<"Server error ", ToString(o.status)>>,
                      !.sleeps = Append(@, RETRY_BACKOFF * (f.attempt + 1)),
                      !.attempt = @ + 1]
       ELSE [g EXCEPT !.res = o]

\* one iteration of `for attempt in range(RETRY_COUNT + 1)`
PostIter(f, o) ==
  LET g == [f EXCEPT !.posts = Append(@, o)] IN
  IF o.kind = "exc"
  THEN [g EXCEPT !.last_exc = <<o.exc>>,
                 !.sleeps = Append(@, RETRY_BACKOFF * (f.attempt + 1)),
                 !.attempt = @ + 1]
  ELSE IF o.status >= 500 /\ f.attempt < RETRY_COUNT
       THEN [g EXCEPT !.last_exc = <<"Server error ", ToString(o.status)>>,
                      !.sleeps = Append(@, RETRY_BACKOFF * (f.attempt + 1)),
                      !.attempt = @ + 1]
       ELSE [g EXCEPT !.res = o]

\* the loop is over when a response was returned or the range is used up
LoopReturned(f) == f.res.kind = "res"

\* LoopExhausted for `range(RETRY_COUNT)`: one attempt short
LoopExhausted_short(f) == ~LoopReturned(f) /\ f.attempt >= RETRY_COUNT

LoopExhausted(f) == ~LoopReturned(f) /\ f.attempt > RETRY_COUNT

\* after the loop: lines 46-49
RaiseExhausted(f) ==
  IF f.last_exc # <<>>
  THEN Raise("LLMError", <<"Request failed after retries: ">> \o f.last_exc)
  ELSE Raise("LLMError", <<"Unknown request failure">>)

\* _ask_groq / _ask_together after _post_with_retries returned res
AskFinish(p, res) ==
  IF res.status # 200
  THEN Raise("LLMError", <<ProviderLabel(p), " API error ", ToString(res.status), ": ", res.body>>)
  ELSE ParseResponse(res)

\* every result LLMClient.ask can produce from frame f on, when each POST
\* ends with one of the outcomes outs
RECURSIVE AskResultsFrom(_, _, _)
AskResultsFrom(p, f, outs) ==
  IF LoopReturned(f) THEN {AskFinish(p, f.res)}
  ELSE IF LoopExhausted(f) THEN {RaiseExhausted(f)}
  ELSE UNION {AskResultsFrom(p, PostIter(f, o), outs) : o \in outs}

AskResults(p, outs) == AskResultsFrom(p, NewFrame, outs)

NoResult == [kind |-> "none", exc |-> "", value |-> <<>>]

(***************************************************************************)
(* Tenant configuration records (data/clients/<id>.json) and the default   *)
(***************************************************************************)
Get(m, k, d) == IF k \in DOMAIN m THEN m[k] ELSE d

SetKey(m, k, v) == [x \in (DOMAIN m) \cup {k} |-> IF x = k THEN v ELSE m[x]]

DEFAULT_CLIENT_CONFIG ==
  [client_id |-> "default",
   display_name |-> "Default",
   persona |-> [tone |-> "friendly", language_preference |-> "auto",
                response_length |-> "short"],
   lead_rules |-> [lead_definition |-> "phone_or_email_or_intent",
                   free_leads_per_month |-> 250,
                   overage_price_per_lead |-> 10],
   system_prompt_overrides |-> ""]

\* ids with a file in CLIENT_CONFIG_DIR; "broken" holds invalid JSON
StoredIds == {"acme", "nolabel", "alias", "broken"}

\* ids a request can carry: absent, stored, or unknown ("ghost")
CustomerIds == {NoneStr, "acme", "nolabel", "alias", "ghost", "broken"}

\* json.load of the file of a stored id
FileOf(id) ==
  CASE id = "acme" ->
         [client_id |-> "acme", display_name |-> "Acme Pizza",
          persona |-> [tone |-> "formal", response_length |-> "medium"],
          lead_rules |-> [lead_definition |-> "phone_and_intent",
                          free_leads_per_month |-> 2],
          system_prompt_overrides |-> "Never discuss prices."]
    [] id = "nolabel" ->
         [persona |-> [tone |-> "friendly"]]
    [] id = "alias" ->
         [client_id |-> "acme", display_name |-> "Alias Co",
          lead_rules |-> [lead_definition |-> "phone_or_intent",
                          free_leads_per_month |-> 0]]

\* `not customer_id`
NoId(id) == id = NoneStr \/ id = ""

\* load_client_config writing the requested id into the shared default
\* object instead of into a copy of it
LoadClientConfigOn_inPlace(dflt, id) ==
  IF NoId(id) THEN [result |-> Ret(dflt), default |-> dflt]
  ELSE IF id \in StoredIds
       THEN IF id = "broken"
            THEN [result |-> Raise("JSONDecodeError", <<"Expecting value">>),
                  default |-> dflt]
            ELSE LET cfg == FileOf(id) IN
                 IF NoId(Get(cfg, "client_id", NoneStr))
                 THEN [result |-> Ret(SetKey(cfg, "client_id", id)), default |-> dflt]
                 ELSE [result |-> Ret(cfg), default |-> dflt]
       ELSE [result |-> Ret(SetKey(dflt, "client_id", id)),
             default |-> SetKey(dflt, "client_id", id)]

\* load_client_config, the module-level default object being dflt: what the
\* call returns or raises, and the default object after the call
LoadClientConfigOn(dflt, id) ==
  IF NoId(id) THEN [result |-> Ret(dflt), default |-> dflt]
  ELSE IF id \in StoredIds
       THEN IF id = "broken"
            THEN [result |-> Raise("JSONDecodeError", <<"Expecting value">>),
                  default |-> dflt]
            ELSE LET cfg == FileOf(id) IN
                 IF NoId(Get(cfg, "client_id", NoneStr))
                 THEN [result |-> Ret(SetKey(cfg, "client_id", id)), default |-> dflt]
                 ELSE [result |-> Ret(cfg), default |-> dflt]
       ELSE [result |-> Ret(SetKey(dflt, "client_id", id)), default |-> dflt]

\* load_client_config in a process that has not touched the default
LoadClientConfig(id) == LoadClientConfigOn(DEFAULT_CLIENT_CONFIG, id).result

NoCfg == [k \in {} |-> ""]

(***************************************************************************)
(* Inbound texts.  The regular expressions and substring tests of the code *)
(* are tabulated for the texts of the model.                               *)
(***************************************************************************)
Texts ==
  { "hello", "call 9876543210", "mail a@b.co",
    "Please book a table, call 9876543210", "Kripya call 9000000000" }

HINGLISH_INDICATORS ==
  <<"mera", "kya", "hai", "kaun", "nam", "ka", "aap", "kab", "kaha", "please",
    "kripya", "kripya">>

\* 105: re.search(r'^[\x00-\x7F]+$', txt) on the stripped text; a text with
\* Devanagari letters is written with their code points
IsAscii(t) ==
  t \notin {"", "   ", "kya <U+0939 U+093E U+0932> hai",
            "<U+0928 U+092E U+0938 U+094D U+0924 U+0947>"}

\* `token in lowered`: the indicators that are substrings of the stripped,
\* lowercased text
MarkersIn(t) ==
  CASE t = "Please book a table, call 9876543210" -> {"please"}
    [] t = "Kripya call 9000000000" -> {"kripya"}
    [] t = "kya <U+0939 U+093E U+0932> hai" -> {"kya", "hai"}
    [] t = "my name is Sam" -> {"nam"}
    [] t = "  KYA haal  " -> {"kya"}
    [] OTHER -> {}

\* detect_language 101-109: non-empty, ASCII only, contains an indicator
HinglishHeuristic(t) ==
  \E i \in DOMAIN HINGLISH_INDICATORS :
     HINGLISH_INDICATORS[i] \in MarkersIn(t) /\ IsAscii(t)

\* normalize_romanized
NormalizeRomanized(t) ==
  CASE t = "Please book a table, call 9876543210" -> "please book a table, call 9876543210"
    [] t = "Kripya call 9000000000" -> "kripya call 900"
    [] OTHER -> t

\* ---- normalize_romanized on strings given character by character ----
\* longest text given to normalize_romanized on its own
MaxTextLen == 4

\* lower and upper case letters (a vowel and a consonant), a digit, a blank
Chars == {"a", "A", "b", "B", "1", " "}

CharSeqs == UNION { [1..n -> Chars] : n \in 0..MaxTextLen }

\* the class [aeiou] among the characters of the model
LowerVowels == {"a"}

\* number of leading characters of s equal to c
RECURSIVE RunLen(_, _)
RunLen(s, c) ==
  IF s = <<>> \/ Head(s) # c THEN 0 ELSE 1 + RunLen(Tail(s), c)

Drop(s, n) == SubSeq(s, n + 1, Len(s))

\* 89: re.sub(r'([aeiou])\1{2,}', r'\1', text), leftmost greedy matches
RECURSIVE CollapseVowels(_)
CollapseVowels(s) ==
  IF s = <<>> THEN <<>>
  ELSE LET n == RunLen(s, Head(s)) IN
       IF Head(s) \in LowerVowels /\ n >= 3
       THEN <<Head(s)>> \o CollapseVowels(Drop(s, n))
       ELSE <<Head(s)>> \o CollapseVowels(Tail(s))

\* 90: re.sub(r'(.)\1{2,}', r'\1\1', t)
RECURSIVE CollapseRepeats(_)
CollapseRepeats(s) ==
  IF s = <<>> THEN <<>>
  ELSE LET n == RunLen(s, Head(s)) IN
       IF n >= 3
       THEN <<Head(s), Head(s)>> \o CollapseRepeats(Drop(s, n))
       ELSE <<Head(s)>> \o CollapseRepeats(Tail(s))

\* str.strip()
RECURSIVE StripChars(_)
StripChars(s) ==
  IF s = <<>> THEN <<>>
  ELSE IF Head(s) = " " THEN StripChars(Tail(s))
  ELSE IF s[Len(s)] = " " THEN StripChars(SubSeq(s, 1, Len(s) - 1))
  ELSE s

\* str.lower()
LowerChar(c) == CASE c = "A" -> "a" [] c = "B" -> "b" [] OTHER -> c

LowerChars(s) == [i \in DOMAIN s |-> LowerChar(s[i])]

\* normalize_romanized
NormalizeRomanizedChars(s) ==
  LowerChars(StripChars(CollapseRepeats(CollapseVowels(s))))

\* langdetect.detect: an ISO code or an exception
DetectorOutcomes == {Ret("en"), Ret("hi"), Ret("fr"), Raise("LangDetectException", <<"No features in text.">>)}

\* texts given to detect_language on its own: also empty and blank ones
LangTexts ==
  Texts \cup {"", "   ", "kya <U+0939 U+093E U+0932> hai",
              "<U+0928 U+092E U+0938 U+094D U+0924 U+0947>", "my name is Sam",
              "  KYA haal  ", "bonjour"}

\* str.strip() of a text of the model
StripText(t) ==
  CASE t = "   " -> ""
    [] t = "  KYA haal  " -> "KYA haal"
    [] OTHER -> t

\* detect_language asking the detector first and applying the marker test
\* only when the detector fails
DetectLanguage_detectorFirst(t, d) ==
  IF StripText(t) = "" THEN "other"
  ELSE IF d.kind = "raise"
       THEN IF HinglishHeuristic(t) THEN "hinglish" ELSE "other"
  ELSE IF d.value = "hi" THEN "hi"
  ELSE IF d.value = "en" THEN "en"
  ELSE d.value

\* detect_language, given what the detector would answer
DetectLanguage(t, d) ==
  IF StripText(t) = "" THEN "other"
  ELSE IF HinglishHeuristic(t) THEN "hinglish"
  ELSE IF d.kind = "raise" THEN "other"
  ELSE IF d.value = "hi" THEN "hi"
  ELSE IF d.value = "en" THEN "en"
  ELSE d.value

\* detect_lead 144-153: first PHONE_RE match with at least 7 digits
PhoneOf(t) ==
  IF t \in {"call 9876543210", "Please book a table, call 9876543210",
            "please book a table, call 9876543210", "Kripya call 9000000000",
            "call 9876543210 or mail a@b.co", "book: 9876543210, a@b.co"}
  THEN IF t = "Kripya call 9000000000" THEN "9000000000" ELSE "9876543210"
  ELSE NoneStr

\* detect_lead 154: first EMAIL_RE match
EmailOf(t) ==
  IF t \in {"mail a@b.co", "call 9876543210 or mail a@b.co", "book via a@b.co",
            "book: 9876543210, a@b.co"}
  THEN "a@b.co"
  ELSE NoneStr

\* detect_lead 155-156: an intent keyword in the lowercased text
IntentOf(t) ==
  t \in {"Please book a table, call 9876543210", "please book a table, call 9876543210",
         "I want to book", "book via a@b.co", "book: 9876543210, a@b.co"}

NoLead == [some |-> FALSE, phone |-> NoneStr, email |-> NoneStr, intent |-> FALSE]

LeadRules == {"phone_or_email_or_intent", "phone_and_intent", "phone_or_intent"}

\* rule names a caller can pass: the three known ones and an unknown one
LeadDefs == LeadRules \cup {"email_only"}

\* texts given to detect_lead on its own: every combination of the three
\* signals, and a number too short to be a phone
LeadTexts ==
  { "hello", "call 12345", "call 9876543210", "mail a@b.co", "I want to book",
    "call 9876543210 or mail a@b.co", "Please book a table, call 9876543210",
    "book via a@b.co", "book: 9876543210, a@b.co" }

\* detect_lead with rule phone_or_intent accepting an email alone
DetectLead_emailQualifies(t, lead_def) ==
  LET phone == PhoneOf(t)
      email == EmailOf(t)
      intent == IntentOf(t)
      cand == [some |-> TRUE, phone |-> phone, email |-> email, intent |-> intent]
  IN
  IF lead_def = "phone_and_intent" /\ (phone # NoneStr /\ intent)
  THEN cand
  ELSE IF lead_def \in {"phone_or_email_or_intent", "phone_or_intent"}
          /\ (phone # NoneStr \/ email # NoneStr \/ intent)
  THEN cand
  ELSE NoLead

\* detect_lead
DetectLead(t, lead_def) ==
  LET phone == PhoneOf(t)
      email == EmailOf(t)
      intent == IntentOf(t)
      cand == [some |-> TRUE, phone |-> phone, email |-> email, intent |-> intent]
  IN
  IF lead_def = "phone_or_email_or_intent" /\ (phone # NoneStr \/ email # NoneStr \/ intent)
  THEN cand
  ELSE IF lead_def = "phone_and_intent" /\ (phone # NoneStr /\ intent)
  THEN cand
  ELSE IF lead_def = "phone_or_intent" /\ (phone # NoneStr \/ intent)
  THEN cand
  ELSE NoLead

(***************************************************************************)
(* Prompt                                                                  *)
(***************************************************************************)
\* build_system_prompt
BuildSystemPrompt(cfg) ==
  LET persona == Get(cfg, "persona", NoCfg)
      tone == Get(persona, "tone", "friendly")
      response_length == Get(persona, "response_length", "short")
      overrides == Get(cfg, "system_prompt_overrides", "")
      prompt == <<"You are a helpful customer support assistant for ",
                  Get(cfg, "display_name", "this business"),
                  ". Follow persona instructions: tone=", tone,
                  "; keep responses ", response_length,
                  ". ONLY use facts from CONTEXT. If not found, respond: 'Sorry - I don't have that info right now. Would you like me to connect you to a human?'.">>
  IN IF overrides # "" THEN prompt \o <<"\n\n", overrides>> ELSE prompt

\* build_messages
BuildMessages(cfg, text, ctxs, lang) ==
  LET system == BuildSystemPrompt(cfg)
      system2 == IF lang \in {"hi", "hinglish"}
                 THEN system \o <<"\n\nReply in the user's language (Hindi or Hinglish) and prefer simple Hindi words or Hinglish, keep tone same as persona.">>
                 ELSE system
  IN << [role |-> "system", content |-> system2],
        [role |-> "user", content |-> <<text>>] >>

\* FallbackReply naming the tenant by its id instead of its display name
FallbackReply_clientId(cfg) ==
  << "Sorry - I don't have information about that for ",
     Get(cfg, "client_id", "this business"),
     ". Would you like me to connect you to a specialist or look up a nearby business?" >>

\* the reply of handle_message 275-276 when nothing was retrieved
FallbackReply(cfg) ==
  << "Sorry - I don't have information about that for ",
     Get(cfg, "display_name", "this business"),
     ". Would you like me to connect you to a specialist or look up a nearby business?" >>

\* the reply of handle_message 283 when llm.ask raised e
LLMFailedReply(e) == <<"ERROR: LLM failed: ">> \o e.value

(***************************************************************************)
(* Vector search: hits and the reduction of their payload (238-245)        *)
(***************************************************************************)
HitKinds == {"d_text", "o_text", "o_notext", "o_none", "d_null", "o_list"}

\* payload.get("text") or json.dumps(payload), per hit
HitContext(h) ==
  CASE h = "d_text"   -> Ret("We open at 9am")
    [] h = "o_text"   -> Ret("Menu: pizza, pasta")
    [] h = "o_notext" -> Ret("{\"title\": \"hours\"}")
    [] h = "o_none"   -> Ret("{}")
    [] h = "d_null"   -> Raise("AttributeError", <<"'NoneType' object has no attribute 'get'">>)
    [] h = "o_list"   -> Raise("AttributeError", <<"'list' object has no attribute 'get'">>)

\* the for loop over hits: the contexts so far, or the first exception
RECURSIVE ReduceHits(_, _)
ReduceHits(hits, acc) ==
  IF hits = <<>> THEN Ret(acc)
  ELSE LET c == HitContext(Head(hits)) IN
       IF c.kind = "raise" THEN c
       ELSE ReduceHits(Tail(hits), Append(acc, c.value))

\* answers of the search call: at most TOP_K hits, or an exception
HitLists ==
  { h \in { <<>>, <<"d_text">>, <<"o_notext">>, <<"o_none">>, <<"d_null">>,
            <<"o_list">>, <<"d_text", "o_text">>, <<"o_text", "o_list">>,
            <<"d_text", "o_text", "o_notext">> } : Len(h) <= TOP_K }

SearchOutcomes ==
  {Ret(h) : h \in HitLists}
    \cup {Raise("UnexpectedResponse", <<"404 collection not found">>),
          Raise("ConnectionError", <<"connection refused">>)}

(***************************************************************************)
(* Lead datastore (Supabase REST)                                          *)
(***************************************************************************)
DbExc == [kind |-> "exc", status |-> 0, n |-> 0]

DbRes(st, n) == [kind |-> "res", status |-> st, n |-> n]

DbNone == [kind |-> "none", status |-> 0, n |-> 0]

\* answers to the GET of get_monthly_lead_count; n is the number of rows
\* (len(r.json())); an error answer carries a two-field error object
CountOutcomes == {DbExc, DbRes(500, 2)} \cup {DbRes(200, n) : n \in 0..MaxCount}

\* answers to the POST of save_lead_supabase
SaveOutcomes == {DbExc, DbRes(500, 0), DbRes(200, 0), DbRes(201, 0)}

\* CountFrom without the test on the status: the length of any answer
CountFrom_ignoresStatus(o) == IF o.kind = "res" THEN o.n ELSE 0

\* get_monthly_lead_count once the request was answered (189-194)
CountFrom(o) == IF o.kind = "res" /\ o.status = 200 THEN o.n ELSE 0

\* SavedFrom taking any answer for a success
SavedFrom_anyResponse(o) == o.kind = "res"

\* save_lead_supabase once the request was answered (215-217)
SavedFrom(o) == o.kind = "res" /\ o.status \in {200, 201}

\* handle_message 295: user_meta.get("channel") if user_meta else "unknown"
\* (an absent or empty user_meta is falsy)
UserMetas ==
  { [present |-> FALSE, map |-> NoCfg],
    [present |-> TRUE, map |-> NoCfg],
    [present |-> TRUE, map |-> [channel |-> "whatsapp"]],
    [present |-> TRUE, map |-> [from |-> "+14155550100"]] }

SourceOf(meta) ==
  IF meta.present /\ DOMAIN meta.map # {}
  THEN Get(meta.map, "channel", NoneStr)
  ELSE "unknown"

NoPayload ==
  [some |-> FALSE, phone |-> NoneStr, email |-> NoneStr, intent |-> FALSE,
   raw_text |-> "", source |-> "", overage |-> FALSE, saved |-> FALSE,
   current_count |-> 0, free_limit |-> 0]

(***************************************************************************)
(* serverless/router.py: tenant resolution                                 *)
(***************************************************************************)
\* data/mappings.json as loaded into MAPPINGS["mappings"]: an ordered table.
\* The first two entries carry the same `to` under different channel types;
\* the last entry has no customer_id.
MAPPINGS ==
  << [customer_id |-> "salon_mumbai",
      channels |-> << [type |-> "sms", to |-> "+14155238886"] >>],
     [customer_id |-> "cafe_pune",
      channels |-> << [type |-> "whatsapp", to |-> "+14155238886"],
                      [type |-> "email", email |-> "hello@cafe.in"] >>],
     [customer_id |-> "tattoo_surat",
      channels |-> << [type |-> "email", to |-> "tattoo@inkvibe.com"],
                      [type |-> "instagram", page_id |-> "17890"] >>],
     [channels |-> << [type |-> "whatsapp", to |-> "+19990000000"] >>] >>

KEYWORD_MAP ==
  << [tokens |-> <<"tattoo", "ink", "tattooing", "tattoo studio">>, cid |-> "tattoo_surat"],
     [tokens |-> <<"pizza", "menu", "coffee", "cafe", "special", "margherita", "paneer">>,
      cid |-> "cafe_pune"],
     [tokens |-> <<"hair", "salon", "cut", "styling", "appointment", "barber">>,
      cid |-> "salon_mumbai"] >>

\* texts of canonical messages; None is NoneStr
RouterTexts ==
  { NoneStr, "hello", "Pizza please", "I want a tattoo appointment",
    "Haircut, then PIZZA", "Thinking about it" }

\* `tk in norm_text(text)`: the keywords that are substrings of the
\* stripped, lowercased text
KeywordsIn(text) ==
  CASE text = "Pizza please" -> {"pizza"}
    [] text = "I want a tattoo appointment" -> {"tattoo", "appointment"}
    [] text = "Haircut, then PIZZA" -> {"pizza", "hair", "cut"}
    [] text = "Thinking about it" -> {"ink"}
    [] OTHER -> {}

\* str.strip() on the identifiers of the model
StripId(x) == IF x = " +14155238886 " THEN "+14155238886" ELSE x

\* map_by_to: 42
ChannelHasTo(ch, channel, ident) ==
  Get(ch, "type", NoneStr) = channel /\ Get(ch, "to", NoneStr) = ident

\* map_by_identifier: 52
ChannelHasIdentifier(ch, ident) ==
  \/ Get(ch, "to", NoneStr) = ident
  \/ Get(ch, "page_id", NoneStr) = ident
  \/ Get(ch, "email", NoneStr) = ident

\* the loops of map_by_to over the table from entry ms on
RECURSIVE MapByToFrom(_, _, _)
MapByToFrom(ms, channel, ident) ==
  IF ms = <<>> THEN NoneStr
  ELSE LET chs == Get(Head(ms), "channels", <<>>) IN
       IF \E i \in DOMAIN chs : ChannelHasTo(chs[i], channel, ident)
       THEN Get(Head(ms), "customer_id", NoneStr)
       ELSE MapByToFrom(Tail(ms), channel, ident)

\* map_by_to
MapByTo(channel, to_identifier) ==
  IF NoId(to_identifier) THEN NoneStr
  ELSE MapByToFrom(MAPPINGS, channel, StripId(to_identifier))

\* the loops of map_by_identifier over the table from entry ms on
RECURSIVE MapByIdentifierFrom(_, _)
MapByIdentifierFrom(ms, ident) ==
  IF ms = <<>> THEN NoneStr
  ELSE LET chs == Get(Head(ms), "channels", <<>>) IN
       IF \E i \in DOMAIN chs : ChannelHasIdentifier(chs[i], ident)
       THEN Get(Head(ms), "customer_id", NoneStr)
       ELSE MapByIdentifierFrom(Tail(ms), ident)

\* map_by_identifier
MapByIdentifier(identifier) ==
  IF NoId(identifier) THEN NoneStr
  ELSE MapByIdentifierFrom(MAPPINGS, StripId(identifier))

\* the loops of map_by_keyword over KEYWORD_MAP from entry km on
RECURSIVE MapByKeywordFrom(_, _)
MapByKeywordFrom(km, text) ==
  IF km = <<>> THEN NoneStr
  ELSE IF \E i \in DOMAIN Head(km).tokens : Head(km).tokens[i] \in KeywordsIn(text)
       THEN Head(km).cid
       ELSE MapByKeywordFrom(Tail(km), text)

\* map_by_keyword going through KEYWORD_MAP from its last entry to its first
MapByKeyword_lastEntryFirst(text) ==
  MapByKeywordFrom([i \in DOMAIN KEYWORD_MAP |-> KEYWORD_MAP[Len(KEYWORD_MAP) + 1 - i]], text)

\* map_by_keyword
MapByKeyword(text) == MapByKeywordFrom(KEYWORD_MAP, text)

\* identify_customer with the keyword step ahead of the two table steps
IdentifyCustomer_keywordFirst(msg) ==
  IF DOMAIN msg = {} THEN "default"
  ELSE LET channel == Get(msg, "channel", NoneStr)
           to == Get(msg, "to", NoneStr)
           frm == Get(msg, "from", NoneStr)
           text == IF NoId(Get(msg, "text", NoneStr)) THEN "" ELSE msg.text
           cid0 == MapByKeyword(text)
           cid1 == MapByTo(channel, to)
           cid2 == IF ~NoId(MapByIdentifier(to)) THEN MapByIdentifier(to)
                   ELSE MapByIdentifier(frm)
       IN IF ~NoId(cid0) THEN cid0
          ELSE IF ~NoId(cid1) THEN cid1
          ELSE IF ~NoId(cid2) THEN cid2
          ELSE "default"

\* identify_customer
IdentifyCustomer(msg) ==
  IF DOMAIN msg = {} THEN "default"
  ELSE LET channel == Get(msg, "channel", NoneStr)
           to == Get(msg, "to", NoneStr)
           frm == Get(msg, "from", NoneStr)
           text == IF NoId(Get(msg, "text", NoneStr)) THEN "" ELSE msg.text
           cid1 == MapByTo(channel, to)
           cid2 == IF ~NoId(MapByIdentifier(to)) THEN MapByIdentifier(to)
                   ELSE MapByIdentifier(frm)
           cid3 == MapByKeyword(text)
       IN IF ~NoId(cid1) THEN cid1
          ELSE IF ~NoId(cid2) THEN cid2
          ELSE IF ~NoId(cid3) THEN cid3
          ELSE "default"

\* canonical messages: the empty message and every combination of fields
RouterChannels == {"whatsapp", "email", "instagram", "unknown"}

RouterTos ==
  {NoneStr, "+14155238886", " +14155238886 ", "tattoo@inkvibe.com", "+19990000000",
   "nobody"}

RouterFroms == {NoneStr, "17890", "hello@cafe.in", "user@example.com"}

CanonicalMessages ==
  {NoCfg} \cup
  [channel : RouterChannels, to : RouterTos, from : RouterFroms, text : RouterTexts]

(***************************************************************************)
(* State                                                                   *)
(***************************************************************************)
VARIABLES
  provider,     \* LLMClient.provider, fixed by the constructor
  script,       \* how the provider answers the successive POSTs of a call
  ask_pc,       \* position inside LLMClient.ask: idle, loop, finish, done
  attempt,      \* _post_with_retries: loop variable
  last_exc,     \* _post_with_retries: last_exc
  res,          \* _post_with_retries: the response returned to _ask_*
  posts,        \* the POST requests issued by this call, with their outcome
  sleeps,       \* the time.sleep calls of this call
  ask_result,   \* what ask returned or raised
  \* ---- one handle_message invocation ----
  pc,                   \* position inside handle_message
  customer_id,          \* argument
  user_text,            \* argument
  user_meta,            \* argument
  supabase_configured,  \* SUPABASE_URL and SUPABASE_KEY are both set
  client_cfg,           \* local: the loaded configuration
  detected,             \* local: language tag
  user_text_norm,       \* local
  embed_res,            \* how embedder.encode ended: none, ok, raise
  search_res,           \* how the search call ended
  contexts,             \* local: what retrieve_context returned
  messages,             \* local: what build_messages returned
  reply,                \* local, then result["reply"]
  lead,                 \* local: what detect_lead returned
  current,              \* local: month-to-date count
  count_res,            \* how the count request ended
  save_res,             \* how the insert request ended
  lead_payload,         \* result["lead"]
  outcome,              \* running, returned, raised
  raised,               \* the exception handle_message ended with
  calls,                \* calls made below handle_message, in order
  \* ---- a helper called on its own ----
  call_fn,              \* the function called
  call_arg,             \* its argument(s)
  call_out,             \* what it returned or raised; NoResult while pending
  default_cfg,          \* the module-level DEFAULT_CLIENT_CONFIG object
  \* ---- one server process handling several requests ----
  req_pc,               \* where each request stands
  import_lock,          \* the request holding the import lock of runtime.rag_service, 0 if free
  rag_module,           \* runtime.rag_service in sys.modules: absent or loaded
  constructed,          \* per module-level object, how many were constructed in this process
  globals,              \* per module-level name, the object bound to it (0: unbound)
  rows,                 \* the tenant's rows in the leads table, in insertion order
  lead_current          \* per request, the local `current` of handle_message

askVars == <<provider, script, ask_pc, attempt, last_exc, res, posts, sleeps, ask_result>>

inputVars == <<customer_id, user_text, user_meta, supabase_configured>>

localVars ==
  <<client_cfg, detected, user_text_norm, embed_res, search_res, contexts,
    messages, reply, lead, current, count_res, save_res, lead_payload>>

pipeVars == <<pc, inputVars, localVars, outcome, raised, calls>>

fnVars == <<call_fn, call_arg, call_out, default_cfg>>

srvVars == <<req_pc, import_lock, rag_module, constructed, globals, rows, lead_current>>

vars == <<askVars, pipeVars, fnVars, srvVars>>

\* most requests one process handles in a run
NumRequests == 3

Requests == 1..NumRequests

\* rag_service.py 37-39
Singletons == {"embedder", "qdrant", "llm"}

\* no request has arrived, nothing is imported, the leads table is empty
SrvIdle ==
  /\ req_pc = [r \in Requests |-> "none"]
  /\ import_lock = 0
  /\ rag_module = "absent"
  /\ constructed = [n \in Singletons |-> 0]
  /\ globals = [n \in Singletons |-> 0]
  /\ rows = <<>>
  /\ lead_current = [r \in Requests |-> 0]

\* no helper call
FnIdle ==
  /\ call_fn = "none"
  /\ call_arg = <<>>
  /\ call_out = NoResult
  /\ default_cfg = DEFAULT_CLIENT_CONFIG

\* the locals of handle_message before its first statement
FreshLocals ==
  /\ client_cfg = NoCfg
  /\ detected = ""
  /\ user_text_norm = ""
  /\ embed_res = "none"
  /\ search_res = NoResult
  /\ contexts = <<>>
  /\ messages = <<>>
  /\ reply = <<>>
  /\ lead = NoLead
  /\ current = 0
  /\ count_res = DbNone
  /\ save_res = DbNone
  /\ lead_payload = NoPayload
  /\ outcome = "running"
  /\ raised = ""
  /\ calls = <<>>

\* no handle_message invocation
PipeIdle ==
  /\ pc = "idle"
  /\ customer_id = NoneStr
  /\ user_text = ""
  /\ user_meta = [present |-> FALSE, map |-> NoCfg]
  /\ supabase_configured = FALSE
  /\ FreshLocals

Frame ==
  [attempt |-> attempt, last_exc |-> last_exc, res |-> res,
   posts |-> posts, sleeps |-> sleeps]

SetFrame(f) ==
  /\ attempt' = f.attempt
  /\ last_exc' = f.last_exc
  /\ res' = f.res
  /\ posts' = f.posts
  /\ sleeps' = f.sleeps

AskIdle ==
  /\ ask_pc = "idle"
  /\ attempt = 0
  /\ last_exc = <<>>
  /\ res = NoResponse
  /\ posts = <<>>
  /\ sleeps = <<>>
  /\ ask_result = NoResult

(***************************************************************************)
(* LLMClient.ask called directly (llm/test_wrapper.py)                     *)
(***************************************************************************)
\* the provider's answers to the POSTs of one call; a POST beyond the
\* script is answered like the last one
Scripts == [1..(RETRY_COUNT + 1) -> ProviderOutcomes]

NextOutcome ==
  IF Len(posts) < Len(script) THEN script[Len(posts) + 1] ELSE script[Len(script)]

InitAsk ==
  /\ provider \in Providers
  /\ script \in Scripts
  /\ AskIdle
  /\ PipeIdle
  /\ FnIdle
  /\ SrvIdle

\* ask -> _ask_groq / _ask_together -> _post_with_retries
AskCall ==
  /\ ask_pc = "idle"
  /\ ask_pc' = "loop"
  /\ UNCHANGED <<provider, script, attempt, last_exc, res, posts, sleeps, ask_result, pipeVars, fnVars, srvVars>>

\* one loop iteration: the POST and what the code does with its outcome
PostAttempt ==
  /\ ask_pc = "loop"
  /\ ~LoopReturned(Frame) /\ ~LoopExhausted(Frame)
  /\ LET f == PostIter(Frame, NextOutcome) IN
       /\ SetFrame(f)
       /\ ask_pc' = IF LoopReturned(f) THEN "finish" ELSE "loop"
  /\ UNCHANGED <<provider, script, ask_result, pipeVars, fnVars, srvVars>>

\* the range is used up without a returned response
PostExhausted ==
  /\ ask_pc = "loop"
  /\ LoopExhausted(Frame)
  /\ ask_result' = RaiseExhausted(Frame)
  /\ ask_pc' = "done"
  /\ UNCHANGED <<provider, script, attempt, last_exc, res, posts, sleeps, pipeVars, fnVars, srvVars>>

\* status check and _parse_response
AskReturn ==
  /\ ask_pc = "finish"
  /\ ask_result' = AskFinish(provider, res)
  /\ ask_pc' = "done"
  /\ UNCHANGED <<provider, script, attempt, last_exc, res, posts, sleeps, pipeVars, fnVars, srvVars>>

NextAsk == AskCall \/ PostAttempt \/ PostExhausted \/ AskReturn

SpecAsk == InitAsk /\ [][NextAsk]_vars

\* one call runs to its end: the interpreter keeps executing it
FairSpecAsk == SpecAsk /\ WF_vars(NextAsk)

(***************************************************************************)
(* handle_message(user_text, user_meta, customer_id)                       *)
(***************************************************************************)
\* the provider behaviours one handle_message invocation is run against
PipelineOutcomes ==
  { NetOutcome("Timeout"),
    Response(200, "msg_content"),
    Response(200, "choice_null"),
    Response(200, "no_choices_error"),
    Response(400, "no_choices_error"),
    Response(500, "<html>Bad Gateway</html>") }

\* every result of llm.ask against these behaviours, per provider
AskResultsOf == [p \in Providers |-> AskResults(p, PipelineOutcomes)]

Call(op, key) == [op |-> op, key |-> key]

LeadRulesOf(cfg) == Get(cfg, "lead_rules", NoCfg)

\* handle_message 286: the rule handed to detect_lead
LeadDefOf(cfg) == Get(LeadRulesOf(cfg), "lead_definition", "phone_or_email_or_intent")

\* handle_message 291
FreeLimitOf(cfg) == Get(LeadRulesOf(cfg), "free_leads_per_month", DEFAULT_FREE_LEADS)

\* Overage with a strict comparison
Overage_strict(cur, free) == cur > free

\* handle_message 292-294
Overage(cur, free) == cur >= free

\* handle_message ends by raising e
Abort(e) ==
  /\ outcome' = "raised"
  /\ raised' = e
  /\ pc' = "done"

Init ==
  /\ provider \in Providers
  /\ script = <<>>
  /\ AskIdle
  /\ pc = "load"
  /\ customer_id \in CustomerIds
  /\ user_text \in Texts
  /\ user_meta \in UserMetas
  /\ supabase_configured \in BOOLEAN
  /\ FreshLocals
  /\ FnIdle
  /\ SrvIdle

\* 261: client_cfg = load_client_config(customer_id)
LoadConfig ==
  /\ pc = "load"
  /\ LET r == LoadClientConfig(customer_id) IN
       IF r.kind = "raise"
       THEN /\ Abort(r.exc)
            /\ UNCHANGED client_cfg
       ELSE /\ client_cfg' = r.value
            /\ pc' = "classify"
            /\ UNCHANGED <<outcome, raised>>
  /\ UNCHANGED <<askVars, fnVars, srvVars, inputVars, detected, user_text_norm, embed_res,
                 search_res, contexts, messages, reply, lead, current,
                 count_res, save_res, lead_payload, calls>>

\* 263-267: detect_language, then normalize_romanized for hinglish
Classify ==
  /\ pc = "classify"
  /\ \E d \in (IF HinglishHeuristic(user_text) THEN {Ret("en")} ELSE DetectorOutcomes) :
       LET tag == DetectLanguage(user_text, d) IN
         /\ detected' = tag
         /\ user_text_norm' = IF tag = "hinglish" THEN NormalizeRomanized(user_text)
                              ELSE user_text
  /\ pc' = "embed"
  /\ UNCHANGED <<askVars, fnVars, srvVars, inputVars, client_cfg, embed_res, search_res, contexts,
                 messages, reply, lead, current, count_res, save_res,
                 lead_payload, outcome, raised, calls>>

\* retrieve_context 223-224: the collection name and embedder.encode, which
\* stands before the try block
Embed ==
  /\ pc = "embed"
  /\ calls' = Append(calls, Call("embed", user_text_norm))
  /\ \E ok \in BOOLEAN :
       IF ok
       THEN /\ embed_res' = "ok"
            /\ pc' = "search"
            /\ UNCHANGED <<outcome, raised>>
       ELSE /\ embed_res' = "raise"
            /\ Abort("RuntimeError")
  /\ UNCHANGED <<askVars, fnVars, srvVars, inputVars, client_cfg, detected, user_text_norm,
                 search_res, contexts, messages, reply, lead, current,
                 count_res, save_res, lead_payload>>

\* retrieve_context 225-246: the search inside try/except, then the loop
\* over the hits, which stands after it
Search ==
  /\ pc = "search"
  /\ calls' = Append(calls, Call("search", <<Get(client_cfg, "client_id", NoneStr), "_kb">>))
  /\ \E o \in SearchOutcomes :
       /\ search_res' = o
       /\ IF o.kind = "raise"
          THEN /\ contexts' = <<>>
               /\ pc' = "compose"
               /\ UNCHANGED <<outcome, raised>>
          ELSE LET r == ReduceHits(o.value, <<>>) IN
               IF r.kind = "raise"
               THEN /\ Abort(r.exc)
                    /\ UNCHANGED contexts
               ELSE /\ contexts' = r.value
                    /\ pc' = "compose"
                    /\ UNCHANGED <<outcome, raised>>
  /\ UNCHANGED <<askVars, fnVars, srvVars, inputVars, client_cfg, detected, user_text_norm,
                 embed_res, messages, reply, lead, current, count_res,
                 save_res, lead_payload>>

\* 271: messages = build_messages(...), before the test on contexts
Compose ==
  /\ pc = "compose"
  /\ messages' = BuildMessages(client_cfg, user_text_norm, contexts, detected)
  /\ pc' = "gate"
  /\ UNCHANGED <<askVars, fnVars, srvVars, inputVars, client_cfg, detected, user_text_norm,
                 embed_res, search_res, contexts, reply, lead, current,
                 count_res, save_res, lead_payload, outcome, raised, calls>>

\* 273-277: nothing retrieved, return the fallback
ShortCircuit ==
  /\ pc = "gate"
  /\ contexts = <<>>
  /\ reply' = FallbackReply(client_cfg)
  /\ outcome' = "returned"
  /\ pc' = "done"
  /\ UNCHANGED <<askVars, fnVars, srvVars, inputVars, client_cfg, detected, user_text_norm,
                 embed_res, search_res, contexts, messages, lead, current,
                 count_res, save_res, lead_payload, raised, calls>>

\* Complete returning from the except block: no lead after a failed completion
Complete_returnOnError ==
  /\ pc = "gate"
  /\ contexts # <<>>
  /\ calls' = Append(calls, Call("llm.ask", provider))
  /\ \E r \in AskResultsOf[provider] :
       /\ ask_result' = r
       /\ reply' = IF r.kind = "raise" THEN LLMFailedReply(r) ELSE r.value
       /\ pc' = IF r.kind = "raise" THEN "done" ELSE "extract"
       /\ outcome' = IF r.kind = "raise" THEN "returned" ELSE outcome
  /\ UNCHANGED <<provider, script, ask_pc, attempt, last_exc, res, posts, sleeps,
                 fnVars, srvVars, inputVars, client_cfg, detected, user_text_norm, embed_res,
                 search_res, contexts, messages, lead, current, count_res,
                 save_res, lead_payload, raised>>

\* 280-283: llm.ask(messages) under `except Exception`
Complete ==
  /\ pc = "gate"
  /\ contexts # <<>>
  /\ calls' = Append(calls, Call("llm.ask", provider))
  /\ \E r \in AskResultsOf[provider] :
       /\ ask_result' = r
       /\ reply' = IF r.kind = "raise" THEN LLMFailedReply(r) ELSE r.value
  /\ pc' = "extract"
  /\ UNCHANGED <<provider, script, ask_pc, attempt, last_exc, res, posts, sleeps,
                 fnVars, srvVars, inputVars, client_cfg, detected, user_text_norm, embed_res,
                 search_res, contexts, messages, lead, current, count_res,
                 save_res, lead_payload, outcome, raised>>

\* 286-288 and 302-303: detect_lead; without a candidate the result is
\* returned with lead None
ExtractLead ==
  /\ pc = "extract"
  /\ LET l == DetectLead(user_text_norm, LeadDefOf(client_cfg)) IN
       /\ lead' = l
       /\ IF l.some
          THEN /\ pc' = "count"
               /\ UNCHANGED outcome
          ELSE /\ pc' = "done"
               /\ outcome' = "returned"
  /\ UNCHANGED <<askVars, fnVars, srvVars, inputVars, client_cfg, detected, user_text_norm,
                 embed_res, search_res, contexts, messages, reply, current,
                 count_res, save_res, lead_payload, raised, calls>>

\* 290: current = get_monthly_lead_count(customer_id) if customer_id else 0
CountLeads ==
  /\ pc = "count"
  /\ IF NoId(customer_id)
     THEN /\ current' = 0
          /\ UNCHANGED <<count_res, calls>>
     ELSE IF ~supabase_configured
          THEN /\ current' = 0
               /\ calls' = Append(calls, Call("get_monthly_lead_count", customer_id))
               /\ UNCHANGED count_res
          ELSE \E o \in CountOutcomes :
                 /\ count_res' = o
                 /\ current' = CountFrom(o)
                 /\ calls' = calls \o << Call("get_monthly_lead_count", customer_id),
                                        Call("GET leads", customer_id) >>
  /\ pc' = "save"
  /\ UNCHANGED <<askVars, fnVars, srvVars, inputVars, client_cfg, detected, user_text_norm,
                 embed_res, search_res, contexts, messages, reply, lead,
                 save_res, lead_payload, outcome, raised>>

\* 291-303: quota, save_lead_supabase, the returned lead
SaveLead ==
  /\ pc = "save"
  /\ LET free == FreeLimitOf(client_cfg)
         payload == [some |-> TRUE, phone |-> lead.phone, email |-> lead.email,
                     intent |-> lead.intent, raw_text |-> user_text_norm,
                     source |-> SourceOf(user_meta),
                     overage |-> Overage(current, free),
                     saved |-> FALSE, current_count |-> current,
                     free_limit |-> free]
     IN
     IF ~supabase_configured
     THEN /\ lead_payload' = payload
          /\ calls' = Append(calls, Call("save_lead_supabase", customer_id))
          /\ UNCHANGED save_res
     ELSE \E o \in SaveOutcomes :
            /\ save_res' = o
            /\ lead_payload' = [payload EXCEPT !.saved = SavedFrom(o)]
            /\ calls' = calls \o << Call("save_lead_supabase", customer_id),
                                   Call("POST leads", customer_id) >>
  /\ outcome' = "returned"
  /\ pc' = "done"
  /\ UNCHANGED <<askVars, fnVars, srvVars, inputVars, client_cfg, detected, user_text_norm,
                 embed_res, search_res, contexts, messages, reply, lead,
                 current, count_res, raised>>

Next ==
  \/ LoadConfig
  \/ Classify
  \/ Embed
  \/ Search
  \/ Compose
  \/ ShortCircuit
  \/ Complete
  \/ ExtractLead
  \/ CountLeads
  \/ SaveLead

Spec == Init /\ [][Next]_vars

(***************************************************************************)
(* The helpers called on their own, any number of times in one process     *)
(***************************************************************************)
\* a caller picks a helper and its argument(s)
InitFn ==
  /\ provider = "groq"
  /\ script = <<>>
  /\ AskIdle
  /\ PipeIdle
  /\ default_cfg = DEFAULT_CLIENT_CONFIG
  /\ SrvIdle
  /\ call_out = NoResult
  /\ \/ call_fn = "identify_customer" /\ call_arg \in CanonicalMessages
     \/ call_fn = "normalize_romanized" /\ call_arg \in CharSeqs
     \/ call_fn = "detect_lead"
        /\ call_arg \in [text : LeadTexts, lead_def : LeadDefs]
     \/ call_fn = "load_client_config" /\ call_arg \in CustomerIds \cup {""}
     \/ call_fn = "LLMClient" /\ call_arg \in ProviderSettings
     \/ call_fn = "detect_language"
        /\ call_arg \in [text : LangTexts, detector : DetectorOutcomes]

\* identify_customer(canonical_msg)
CallIdentifyCustomer ==
  /\ call_fn = "identify_customer"
  /\ call_out = NoResult
  /\ call_out' = Ret(IdentifyCustomer(call_arg))
  /\ UNCHANGED <<askVars, pipeVars, srvVars, call_fn, call_arg, default_cfg>>

\* detect_language(text), the detector answering call_arg.detector
CallDetectLanguage ==
  /\ call_fn = "detect_language"
  /\ call_out = NoResult
  /\ call_out' = Ret(DetectLanguage(call_arg.text, call_arg.detector))
  /\ UNCHANGED <<askVars, pipeVars, srvVars, call_fn, call_arg, default_cfg>>

\* normalize_romanized(text)
CallNormalizeRomanized ==
  /\ call_fn = "normalize_romanized"
  /\ call_out = NoResult
  /\ call_out' = Ret(NormalizeRomanizedChars(call_arg))
  /\ UNCHANGED <<askVars, pipeVars, srvVars, call_fn, call_arg, default_cfg>>

\* detect_lead(user_text, lead_def)
CallDetectLead ==
  /\ call_fn = "detect_lead"
  /\ call_out = NoResult
  /\ call_out' = Ret(DetectLead(call_arg.text, call_arg.lead_def))
  /\ UNCHANGED <<askVars, pipeVars, srvVars, call_fn, call_arg, default_cfg>>

\* load_client_config(customer_id)
CallLoadClientConfig ==
  /\ call_fn = "load_client_config"
  /\ call_out = NoResult
  /\ LET r == LoadClientConfigOn(default_cfg, call_arg) IN
       /\ call_out' = r.result
       /\ default_cfg' = r.default
  /\ UNCHANGED <<askVars, pipeVars, srvVars, call_fn, call_arg>>

\* the same process calls load_client_config again, for any id
LoadAgain ==
  /\ call_fn = "load_client_config"
  /\ call_out # NoResult
  /\ call_arg' \in CustomerIds \cup {""}
  /\ call_out' = NoResult
  /\ UNCHANGED <<askVars, pipeVars, srvVars, call_fn, default_cfg>>

\* LLMClient() with LLM_PROVIDER = call_arg
CallLLMClient ==
  /\ call_fn = "LLMClient"
  /\ call_out = NoResult
  /\ call_out' = LLMClientInit(call_arg)
  /\ UNCHANGED <<askVars, pipeVars, srvVars, call_fn, call_arg, default_cfg>>

\* ask on the object the constructor returned, up to the dispatch
CallAskOnClient ==
  /\ call_fn = "LLMClient"
  /\ call_out.kind = "return"
  /\ call_fn' = "ask"
  /\ call_arg' = call_out.value
  /\ call_out' = AskDispatch(call_out.value)
  /\ UNCHANGED <<askVars, pipeVars, srvVars, default_cfg>>

NextFn ==
  \/ CallLLMClient
  \/ CallAskOnClient
  \/ CallLoadClientConfig
  \/ LoadAgain
  \/ CallIdentifyCustomer
  \/ CallDetectLead
  \/ CallNormalizeRomanized
  \/ CallDetectLanguage

SpecFn == InitFn /\ [][NextFn]_vars

(***************************************************************************)
(* serverless/rag_handler_twilio.py: one process, several requests, each   *)
(* importing runtime.rag_service lazily.  The module body constructs       *)
(* embedder, qdrant and llm (rag_service.py 37-39); an import that raises  *)
(* leaves no module in sys.modules, so the next import runs the body again.*)
(* provider is the LLM_PROVIDER setting of the process.                    *)
(***************************************************************************)
InitImport ==
  /\ provider \in ProviderSettings
  /\ script = <<>>
  /\ AskIdle
  /\ PipeIdle
  /\ FnIdle
  /\ SrvIdle

\* the statement of the module body a request stands at, and the next one
BodySteps == <<"embedder", "qdrant", "llm">>

StepIndex(n) == CHOOSE i \in DOMAIN BodySteps : BodySteps[i] = n

\* whether a constructor call can succeed, can fail
CanSucceed(n) == n # "llm" \/ LLMClientInit(provider).kind = "return"

CanFail(n) == n # "llm" \/ LLMClientInit(provider).kind = "raise"

\* twilio_webhook 57-105: a request arrives and is routed
Arrive(r) ==
  /\ req_pc[r] = "none"
  /\ req_pc' = [req_pc EXCEPT ![r] = "lazy"]
  /\ UNCHANGED <<askVars, pipeVars, fnVars, import_lock, rag_module, constructed,
                 globals, rows, lead_current>>

\* _lazy_get_handle_message 47: import_module finds the module in
\* sys.modules, or takes the module's import lock and starts the body
LazyImport(r) ==
  /\ req_pc[r] = "lazy"
  /\ IF rag_module = "loaded"
     THEN /\ req_pc' = [req_pc EXCEPT ![r] = "call"]
          /\ UNCHANGED import_lock
     ELSE /\ import_lock = 0
          /\ import_lock' = r
          /\ req_pc' = [req_pc EXCEPT ![r] = BodySteps[1]]
  /\ UNCHANGED <<askVars, pipeVars, fnVars, rag_module, constructed, globals, rows,
                 lead_current>>

\* rag_service.py 37-39: one constructor call of the module body succeeds;
\* after the last one the module is loaded
ConstructOk(r) ==
  /\ req_pc[r] \in Singletons
  /\ CanSucceed(req_pc[r])
  /\ LET n == req_pc[r] IN
       /\ constructed' = [constructed EXCEPT ![n] = @ + 1]
       /\ globals' = [globals EXCEPT ![n] = constructed[n] + 1]
       /\ IF StepIndex(n) < Len(BodySteps)
          THEN /\ req_pc' = [req_pc EXCEPT ![r] = BodySteps[StepIndex(n) + 1]]
               /\ UNCHANGED <<rag_module, import_lock>>
          ELSE /\ req_pc' = [req_pc EXCEPT ![r] = "call"]
               /\ rag_module' = "loaded"
               /\ import_lock' = 0
  /\ UNCHANGED <<askVars, pipeVars, fnVars, rows, lead_current>>

\* a constructor call raises: the import fails, the half-built module is
\* dropped, and twilio_webhook 109-112 answers "RAG service not configured"
ConstructFails(r) ==
  /\ req_pc[r] \in Singletons
  /\ CanFail(req_pc[r])
  /\ globals' = [n \in Singletons |-> 0]
  /\ import_lock' = 0
  /\ req_pc' = [req_pc EXCEPT ![r] = "replied"]
  /\ UNCHANGED <<askVars, pipeVars, fnVars, rag_module, constructed, rows, lead_current>>

\* twilio_webhook 115-128: handle_message runs with the module's objects
\* and the reply is sent
Serve(r) ==
  /\ req_pc[r] = "call"
  /\ req_pc' = [req_pc EXCEPT ![r] = "replied"]
  /\ UNCHANGED <<askVars, pipeVars, fnVars, import_lock, rag_module, constructed,
                 globals, rows, lead_current>>

NextImport ==
  \E r \in Requests :
    \/ Arrive(r)
    \/ LazyImport(r)
    \/ ConstructOk(r)
    \/ ConstructFails(r)
    \/ Serve(r)

SpecImport == InitImport /\ [][NextImport]_vars

(***************************************************************************)
(* Concurrent handle_message invocations of one tenant that each detected  *)
(* a lead, against a working leads table: the count is read (290) and the  *)
(* row inserted (297) by separate requests to the datastore.               *)
(***************************************************************************)
\* the tenant of the requests and its free quota
LeadTenant == "acme"

LeadFree == FreeLimitOf(LoadClientConfig(LeadTenant).value)

InitLeads ==
  /\ provider = "groq"
  /\ script = <<>>
  /\ AskIdle
  /\ PipeIdle
  /\ FnIdle
  /\ SrvIdle

\* 260-288: an invocation reaches `if lead:` with a candidate
StartLead(r) ==
  /\ req_pc[r] = "none"
  /\ req_pc' = [req_pc EXCEPT ![r] = "count"]
  /\ UNCHANGED <<askVars, pipeVars, fnVars, import_lock, rag_module, constructed,
                 globals, rows, lead_current>>

\* 290: current = get_monthly_lead_count(customer_id); the datastore
\* answers 200 with the tenant's rows of the month
ReadCount(r) ==
  /\ req_pc[r] = "count"
  /\ lead_current' = [lead_current EXCEPT ![r] = CountFrom(DbRes(200, Len(rows)))]
  /\ req_pc' = [req_pc EXCEPT ![r] = "save"]
  /\ UNCHANGED <<askVars, pipeVars, fnVars, import_lock, rag_module, constructed,
                 globals, rows>>

\* 291-300: the overage flag from the count read earlier, then the insert,
\* which the datastore answers with 201
InsertLead(r) ==
  /\ req_pc[r] = "save"
  /\ rows' = Append(rows, [req |-> r,
                           overage |-> Overage(lead_current[r], LeadFree),
                           saved |-> SavedFrom(DbRes(201, 1))])
  /\ req_pc' = [req_pc EXCEPT ![r] = "done"]
  /\ UNCHANGED <<askVars, pipeVars, fnVars, import_lock, rag_module, constructed,
                 globals, lead_current>>

NextLeads ==
  \E r \in Requests :
    \/ StartLead(r)
    \/ ReadCount(r)
    \/ InsertLead(r)

SpecLeads == InitLeads /\ [][NextLeads]_vars

(***************************************************************************)
(* Completion gateway: properties                                          *)
(***************************************************************************)
Transient(o) == o.kind = "exc" \/ (o.kind = "res" /\ o.status >= 500)

AskDone == ask_pc = "done"

\* bodies of a well-formed HTTP 200 answer and the content they carry
ValidBodies == {"msg_content", "legacy_text", "msg_and_text"}

ValidContent(b) ==
  CASE b = "msg_content"  -> "hi from message"
    [] b = "legacy_text"  -> "hi from text"
    [] b = "msg_and_text" -> "hi from message"

\* C5: when the provider fails transiently (network exception or 5xx) on
\* the first RETRY_COUNT attempts and answers attempt RETRY_COUNT+1 with a
\* valid HTTP 200, ask returns the content of that answer; when the provider
\* answers all RETRY_COUNT+1 attempts with 5xx, ask raises LLMError.
C5_RetryThenSuccess ==
  AskDone =>
    /\ ( /\ \A i \in 1..RETRY_COUNT : Transient(script[i])
         /\ script[RETRY_COUNT + 1].kind = "res"
         /\ script[RETRY_COUNT + 1].status = 200
         /\ script[RETRY_COUNT + 1].body \in ValidBodies )
        => ask_result = Ret(<<ValidContent(script[RETRY_COUNT + 1].body)>>)
    /\ ( \A i \in 1..(RETRY_COUNT + 1) :
            script[i].kind = "res" /\ script[i].status >= 500 )
        => (ask_result.kind = "raise" /\ ask_result.exc = "LLMError")

\* two 500s, then a 200 whose content is returned
W_C5 ==
  /\ AskDone
  /\ Len(posts) = RETRY_COUNT + 1
  /\ \A i \in 1..RETRY_COUNT : posts[i].kind = "res" /\ posts[i].status = 500
  /\ posts[RETRY_COUNT + 1] = Response(200, "msg_content")
  /\ ask_result = Ret(<<"hi from message">>)

\* the POSTs of one call: never more than RETRY_COUNT+1, and each one but
\* the last was a network exception or a 5xx answer
C6_PostsBounded ==
  /\ Len(posts) <= RETRY_COUNT + 1
  /\ \A i \in 1..(Len(posts) - 1) : Transient(posts[i])
  /\ AskDone => Len(posts) >= 1

\* C6: one call of ask issues at most RETRY_COUNT+1 POSTs and then
\* terminates, and it issues no POST after a response with a status below
\* 500 (200 or 4xx) has been received.
C6_BoundedAndTerminates == []C6_PostsBounded /\ <>AskDone

\* a 400 on the first attempt ends the call although the provider would
\* have answered a second attempt with a 200
W_C6 ==
  /\ AskDone
  /\ Len(posts) = 1
  /\ posts[1].kind = "res" /\ posts[1].status = 400
  /\ script[2].kind = "res" /\ script[2].status = 200

\* C7: every unsuccessful outcome of ask is an LLMError and no other kind
\* of exception, and after exhausted retries the error carries the cause of
\* the last attempt.
C7_OnlyLLMError ==
  (AskDone /\ ask_result.kind = "raise") =>
    /\ ask_result.exc = "LLMError"
    /\ (Len(posts) = RETRY_COUNT + 1 /\ posts[RETRY_COUNT + 1].kind = "exc")
         => ask_result.value = <<"Request failed after retries: ", posts[RETRY_COUNT + 1].exc>>

(***************************************************************************)
(* Pipeline: properties                                                    *)
(***************************************************************************)
Done == pc = "done"

CallsOf(op) == {i \in DOMAIN calls : calls[i].op = op}

\* the count the datastore reported: the rows of an HTTP 200 answer, 0 when
\* the request failed, was refused or was never sent
CountRead == IF count_res.kind = "res" /\ count_res.status = 200 THEN count_res.n ELSE 0

InsertFailed ==
  save_res.kind = "exc" \/ (save_res.kind = "res" /\ save_res.status \notin {200, 201})

\* C1: when retrieve_context returned an empty sequence, handle_message
\* returns lead = None and the fixed fallback sentence with the tenant's
\* display name in it, and the completion provider was not called.
C1_EmptyRetrievalFallback ==
  (Done /\ outcome = "returned" /\ contexts = <<>>) =>
    /\ ~lead_payload.some
    /\ reply = << "Sorry - I don't have information about that for ",
                  IF "display_name" \in DOMAIN client_cfg
                  THEN client_cfg.display_name ELSE "this business",
                  ". Would you like me to connect you to a specialist or look up a nearby business?" >>
    /\ CallsOf("llm.ask") = {}

\* the search answered without hits for tenant acme
W_C1 ==
  /\ Done /\ outcome = "returned"
  /\ customer_id = "acme"
  /\ search_res = Ret(<<>>)
  /\ contexts = <<>>
  /\ reply[2] = "Acme Pizza"
  /\ ~lead_payload.some

\* C2: whatever fails below it, handle_message ends by returning a result
\* with a reply, never by raising.
C2_NeverRaises == Done => (outcome = "returned" /\ reply # <<>>)

\* C3: retrieve_context returns an empty sequence and does not raise when
\* the embedding fails, the search call fails or a hit is malformed.
C3_RetrieveNeverRaises ==
  ( \/ embed_res = "raise"
    \/ search_res.kind = "raise"
    \/ ( /\ search_res.kind = "return"
         /\ \E i \in DOMAIN search_res.value :
              HitContext(search_res.value[i]).kind = "raise" ) )
  => (outcome # "raised" /\ contexts = <<>>)

\* the lead handle_message has to return for its arguments and for what the
\* datastore answered, whatever the completion did
ExpectedLead ==
  LET rules == IF "lead_rules" \in DOMAIN client_cfg THEN client_cfg.lead_rules ELSE NoCfg
      rule == IF "lead_definition" \in DOMAIN rules THEN rules.lead_definition
              ELSE "phone_or_email_or_intent"
      limit == IF "free_leads_per_month" \in DOMAIN rules THEN rules.free_leads_per_month
               ELSE 250
      cand == DetectLead(user_text_norm, rule)
  IN IF ~cand.some THEN NoPayload
     ELSE [some |-> TRUE, phone |-> cand.phone, email |-> cand.email,
           intent |-> cand.intent, raw_text |-> user_text_norm,
           source |-> SourceOf(user_meta),
           overage |-> (CountRead >= limit),
           saved |-> (save_res.kind = "res" /\ save_res.status \in {200, 201}),
           current_count |-> CountRead, free_limit |-> limit]

\* C4: with a non-empty retrieval, an exception of the completion gateway
\* is not propagated: the reply embeds the error detail, and the lead is
\* the one a successful completion would have been followed by.
C4_CompletionFailureKeepsLead ==
  (Done /\ contexts # <<>>) =>
    /\ outcome = "returned"
    /\ lead_payload = ExpectedLead
    /\ ask_result.kind = "raise" => reply = <<"ERROR: LLM failed: ">> \o ask_result.value
    /\ ask_result.kind = "return" => reply = ask_result.value

\* the completion raised and a lead was still extracted and stored
W_C4 ==
  /\ Done /\ contexts # <<>>
  /\ ask_result.kind = "raise"
  /\ reply[1] = "ERROR: LLM failed: "
  /\ lead_payload.some /\ lead_payload.saved

\* C8: in every lead handle_message produces, overage is true exactly when
\* the count read for the tenant is >= the tenant's free_leads_per_month,
\* and current_count and free_limit are that count and that limit.
C8_OverageIffQuotaReached ==
  (Done /\ lead_payload.some) =>
    LET limit == FreeLimitOf(client_cfg) IN
      /\ lead_payload.overage = (CountRead >= limit)
      /\ lead_payload.current_count = CountRead
      /\ lead_payload.free_limit = limit

\* limit 2 and count 2: overage
W_C8 ==
  /\ Done /\ lead_payload.some
  /\ lead_payload.free_limit = 2
  /\ count_res = DbRes(200, 2)
  /\ lead_payload.current_count = 2
  /\ lead_payload.overage

\* C9: for every candidate of the lead extractor handle_message calls the
\* insert exactly once, with or without overage; when the insert fails the
\* lead has saved = false and handle_message returns with the reply it had.
C9_AlwaysPersistOnce ==
  (Done /\ lead.some) =>
    /\ outcome = "returned"
    /\ lead_payload.some
    /\ Cardinality(CallsOf("save_lead_supabase")) = 1
    /\ Cardinality(CallsOf("POST leads")) = IF supabase_configured THEN 1 ELSE 0
    /\ InsertFailed => ~lead_payload.saved
    /\ reply = IF ask_result.kind = "raise"
               THEN <<"ERROR: LLM failed: ">> \o ask_result.value
               ELSE ask_result.value

\* an overage lead whose insert was refused
W_C9 ==
  /\ Done /\ lead.some
  /\ lead_payload.overage
  /\ save_res = DbRes(500, 0)
  /\ ~lead_payload.saved
  /\ outcome = "returned"

\* C10: the count used for the quota is 0 when the datastore is not
\* configured or the count request fails or is answered with a status other
\* than 200; without configuration every lead has saved = false and
\* current_count = 0 and no request goes to the datastore.
C10_DegradesWithoutDatastore ==
  /\ ( /\ pc \in {"save", "done"}
       /\ lead.some
       /\ ( \/ ~supabase_configured
            \/ count_res.kind = "exc"
            \/ (count_res.kind = "res" /\ count_res.status # 200) ) )
     => current = 0
  /\ (Done /\ lead_payload.some /\ ~supabase_configured) =>
       /\ ~lead_payload.saved
       /\ lead_payload.current_count = 0
       /\ CallsOf("GET leads") = {}
       /\ CallsOf("POST leads") = {}

\* the count request was answered with a 500 and the lead carries count 0
W_C10 ==
  /\ Done /\ lead_payload.some
  /\ supabase_configured
  /\ count_res = DbRes(500, 2)
  /\ lead_payload.current_count = 0

(***************************************************************************)
(* Tenant resolution: properties                                           *)
(***************************************************************************)
FnReturned(fn) == call_fn = fn /\ call_out.kind = "return"

MinOf(S) == CHOOSE i \in S : \A j \in S : i <= j

\* table entries with a channel of exactly this type and (stripped) address
AddressEntries(msg) ==
  IF NoId(msg.to) THEN {}
  ELSE { i \in DOMAIN MAPPINGS : \E j \in DOMAIN MAPPINGS[i].channels :
           LET ch == MAPPINGS[i].channels[j] IN
           /\ "type" \in DOMAIN ch /\ ch.type = msg.channel
           /\ "to" \in DOMAIN ch /\ ch.to = StripId(msg.to) }

\* table entries with a channel whose to, page_id or email is the identifier
IdentifierEntries(ident) ==
  IF NoId(ident) THEN {}
  ELSE { i \in DOMAIN MAPPINGS : \E j \in DOMAIN MAPPINGS[i].channels :
           \E k \in DOMAIN MAPPINGS[i].channels[j] \cap {"to", "page_id", "email"} :
             MAPPINGS[i].channels[j][k] = StripId(ident) }

\* keyword table entries with a token occurring in the text
KeywordEntries(text) ==
  { i \in DOMAIN KEYWORD_MAP :
      \E j \in DOMAIN KEYWORD_MAP[i].tokens : KEYWORD_MAP[i].tokens[j] \in KeywordsIn(text) }

\* the tenant id of the first of the table entries S, None when S is empty
\* or that entry has no customer_id
EntryTenant(S) ==
  IF S = {} \/ "customer_id" \notin DOMAIN MAPPINGS[MinOf(S)] THEN NoneStr
  ELSE MAPPINGS[MinOf(S)].customer_id

\* the tenant of the first rule that yields one
CascadeTenant(msg) ==
  IF EntryTenant(AddressEntries(msg)) # NoneStr THEN EntryTenant(AddressEntries(msg))
  ELSE IF EntryTenant(IdentifierEntries(msg.to)) # NoneStr
       THEN EntryTenant(IdentifierEntries(msg.to))
  ELSE IF EntryTenant(IdentifierEntries(msg.from)) # NoneStr
       THEN EntryTenant(IdentifierEntries(msg.from))
  ELSE IF KeywordEntries(msg.text) # {}
       THEN KEYWORD_MAP[MinOf(KeywordEntries(msg.text))].cid
  ELSE "default"

\* C11: identify_customer returns the tenant of the first rule that matches,
\* in the order address mapping, identifier on to then from, keyword,
\* fallback "default"; a message with an address mapping for one tenant and a
\* keyword of another resolves to the tenant of the address mapping.
C11_CascadeFirstMatch ==
  (FnReturned("identify_customer") /\ DOMAIN call_arg # {}) =>
     /\ call_out.value = CascadeTenant(call_arg)
     /\ (EntryTenant(AddressEntries(call_arg)) # NoneStr
         /\ KeywordEntries(call_arg.text) # {})
          => call_out.value = EntryTenant(AddressEntries(call_arg))

W_C11 ==
  /\ FnReturned("identify_customer")
  /\ DOMAIN call_arg # {}
  /\ call_arg.channel = "whatsapp"
  /\ call_arg.to = "+14155238886"
  /\ call_arg.text = "I want a tattoo appointment"
  /\ call_out.value = "cafe_pune"

(***************************************************************************)
(* Language tag: properties                                                *)
(***************************************************************************)
LanguageTags == {"en", "hi", "hinglish", "other"}

\* C12: detect_language returns one of en, hi, hinglish, other for every
\* text: other for an empty or blank text, other when the detector fails,
\* and other when the detector's code starts with neither hi nor en.
C12_TagInSet ==
  FnReturned("detect_language") =>
     /\ call_out.value \in LanguageTags
     /\ StripText(call_arg.text) = "" => call_out.value = "other"
     /\ (StripText(call_arg.text) # "" /\ ~HinglishHeuristic(call_arg.text)
         /\ call_arg.detector.kind = "raise") => call_out.value = "other"
     /\ (StripText(call_arg.text) # "" /\ ~HinglishHeuristic(call_arg.text)
         /\ call_arg.detector.kind = "return"
         /\ call_arg.detector.value \notin {"hi", "en"}) => call_out.value = "other"

(***************************************************************************)
(* Normalisation: properties                                               *)
(***************************************************************************)
\* C13: normalize_romanized is idempotent: normalising its result again
\* gives the same string, for every mix of upper and lower case letters,
\* digits and blanks.
C13_NormalizeIdempotent ==
  FnReturned("normalize_romanized") =>
     NormalizeRomanizedChars(call_out.value) = call_out.value

(***************************************************************************)
(* Prompt composition: properties                                          *)
(***************************************************************************)
InSeq(x, sq) == \E i \in DOMAIN sq : sq[i] = x

\* C14: when the retrieved snippets are non-empty, the segments handed to
\* llm.ask are the system persona segment, then a system segment that
\* carries every retrieved snippet (the CONTEXT segment), then the user
\* segment last.
C14_ContextInPrompt ==
  (CallsOf("llm.ask") # {} /\ contexts # <<>>) =>
     /\ Len(messages) = 3
     /\ messages[1].role = "system"
     /\ messages[2].role = "system"
     /\ \A i \in DOMAIN contexts : InSeq(contexts[i], messages[2].content)
     /\ messages[3].role = "user"

(***************************************************************************)
(* Lead detection: properties                                              *)
(***************************************************************************)
\* the texts of the model in which each signal is present
WithPhone ==
  { "call 9876543210", "call 9876543210 or mail a@b.co",
    "Please book a table, call 9876543210", "book: 9876543210, a@b.co" }

WithEmail ==
  { "mail a@b.co", "call 9876543210 or mail a@b.co", "book via a@b.co",
    "book: 9876543210, a@b.co" }

WithIntent ==
  { "I want to book", "Please book a table, call 9876543210", "book via a@b.co",
    "book: 9876543210, a@b.co" }

\* C15: detect_lead returns a candidate exactly when the rule is satisfied
\* by the signals of the text: phone_or_email_or_intent by any of the three,
\* phone_and_intent by phone and intent together, phone_or_intent by phone
\* or intent (not by an email alone); under any other rule name it returns
\* None.  A candidate carries the three signals.
C15_LeadIffRuleSatisfied ==
  FnReturned("detect_lead") =>
     LET t == call_arg.text
         rule == call_arg.lead_def
         p == t \in WithPhone
         e == t \in WithEmail
         i == t \in WithIntent
     IN /\ call_out.value.some <=>
             \/ rule = "phone_or_email_or_intent" /\ (p \/ e \/ i)
             \/ rule = "phone_and_intent" /\ p /\ i
             \/ rule = "phone_or_intent" /\ (p \/ i)
        /\ call_out.value.some =>
             /\ (call_out.value.phone # NoneStr) <=> p
             /\ (call_out.value.email # NoneStr) <=> e
             /\ call_out.value.intent <=> i

W_C15 ==
  /\ FnReturned("detect_lead")
  /\ call_arg.text = "mail a@b.co"
  /\ call_arg.lead_def = "phone_or_intent"
  /\ ~call_out.value.some

(***************************************************************************)
(* Lead source: properties                                                 *)
(***************************************************************************)
\* C16: the source of every lead produced by handle_message is a defined
\* string: the channel name when the metadata carries one, and "unknown"
\* when the metadata is absent, empty, or present without a channel field.
C16_SourceDefined ==
  (Done /\ outcome = "returned" /\ lead_payload.some) =>
     /\ lead_payload.source # NoneStr
     /\ lead_payload.source =
          IF user_meta.present /\ "channel" \in DOMAIN user_meta.map
          THEN user_meta.map.channel
          ELSE "unknown"

(***************************************************************************)
(* Tenant configuration: properties                                        *)
(***************************************************************************)
\* C17: for an absent id, an unknown id and an id with a stored record (with
\* or without a client_id of its own) load_client_config returns a
\* configuration whose client_id is set and non-empty; for an id without a
\* stored record it is the default configuration with the requested id
\* attached; and the shared default object is the same after any sequence of
\* calls.  Only a file that is not valid JSON makes the call raise.
C17_TenantIdAlwaysSet ==
  /\ default_cfg = DEFAULT_CLIENT_CONFIG
  /\ FnReturned("load_client_config") =>
       /\ ~NoId(Get(call_out.value, "client_id", NoneStr))
       /\ NoId(call_arg) => call_out.value = DEFAULT_CLIENT_CONFIG
       /\ (~NoId(call_arg) /\ call_arg \notin StoredIds) =>
            /\ call_out.value.client_id = call_arg
            /\ \A k \in DOMAIN DEFAULT_CLIENT_CONFIG \ {"client_id"} :
                 /\ k \in DOMAIN call_out.value
                 /\ call_out.value[k] = DEFAULT_CLIENT_CONFIG[k]
       /\ call_arg = "nolabel" => call_out.value.client_id = "nolabel"
  /\ (call_fn = "load_client_config" /\ call_out.kind = "raise") => call_arg = "broken"

W_C17 ==
  /\ FnReturned("load_client_config")
  /\ call_arg = "ghost"
  /\ call_out.value.client_id = "ghost"
  /\ default_cfg.client_id = "default"

(***************************************************************************)
(* Gateway construction: properties                                        *)
(***************************************************************************)
\* C18: LLMClient() succeeds exactly when LLM_PROVIDER is groq or together;
\* for an unset or any other value the constructor raises, so ask never
\* runs on an object with an unsupported provider.
C18_ConstructOnlySupported ==
  /\ (call_fn = "LLMClient" /\ call_out.kind # "none") =>
       /\ call_out.kind = "return" <=> call_arg \in {"groq", "together"}
       /\ call_out.kind = "return" => call_out.value.provider = call_arg
       /\ call_out.kind = "raise" => call_out.exc = "RuntimeError"
  /\ call_fn = "ask" =>
       /\ call_arg.provider \in {"groq", "together"}
       /\ call_out.kind = "return"

W_C18 ==
  /\ call_fn = "LLMClient"
  /\ call_arg = "openai"
  /\ call_out.kind = "raise"

(***************************************************************************)
(* Pipeline order: properties                                              *)
(***************************************************************************)
\* every call of op1 stands before every call of op2 in the log
Precedes(op1, op2) == \A i \in CallsOf(op1) : \A j \in CallsOf(op2) : i < j

\* C19: a handle_message call that returns has embedded and searched in
\* that order; it took the fallback exactly when retrieval was empty, and
\* then composed no prompt and never invoked llm.ask, the lead count or the
\* lead insert; otherwise it composed the prompt, called llm.ask once, and
\* the count read precedes the insert, both after llm.ask.
C19_PipelineOrder ==
  (Done /\ outcome = "returned") =>
     /\ Precedes("embed", "search")
     /\ Precedes("search", "llm.ask")
     /\ contexts = <<>> =>
          /\ reply = FallbackReply(client_cfg)
          /\ messages = <<>>
          /\ CallsOf("llm.ask") = {}
          /\ CallsOf("get_monthly_lead_count") = {}
          /\ CallsOf("save_lead_supabase") = {}
     /\ contexts # <<>> =>
          /\ messages # <<>>
          /\ Cardinality(CallsOf("llm.ask")) = 1
          /\ Precedes("llm.ask", "get_monthly_lead_count")
          /\ Precedes("llm.ask", "save_lead_supabase")
          /\ Precedes("get_monthly_lead_count", "save_lead_supabase")
          /\ Precedes("GET leads", "POST leads")

(***************************************************************************)
(* Backoff: properties                                                     *)
(***************************************************************************)
RECURSIVE SumSeq(_)
SumSeq(sq) == IF sq = <<>> THEN 0 ELSE Head(sq) + SumSeq(Tail(sq))

\* RETRY_BACKOFF * (1 + 2 + ... + n)
RECURSIVE BackoffUpTo(_)
BackoffUpTo(n) == IF n = 0 THEN 0 ELSE RETRY_BACKOFF * n + BackoffUpTo(n - 1)

\* C20: in one ask call the k-th wait is RETRY_BACKOFF * k, every wait is
\* followed by a retry (there are at most RETRY_COUNT waits, one fewer than
\* the POSTs once the call is over), and the waits sum to at most
\* RETRY_BACKOFF * (1 + ... + RETRY_COUNT), whatever the POSTs end with.
C20_BackoffBounded ==
  /\ \A k \in DOMAIN sleeps : sleeps[k] = RETRY_BACKOFF * k
  /\ Len(sleeps) <= RETRY_COUNT
  /\ AskDone => Len(sleeps) = Len(posts) - 1
  /\ SumSeq(sleeps) <= BackoffUpTo(RETRY_COUNT)

(***************************************************************************)
(* Response parsing: properties                                            *)
(***************************************************************************)
\* bodies whose first choice carries message.content
MessageBodies == {"msg_content", "msg_and_text"}

\* bodies whose first choice carries text but no message.content
TextOnlyBodies == {"legacy_text", "msg_not_map_text"}

\* bodies without choices, or with an empty or null one
NoChoiceBodies ==
  { "choices_empty", "choices_null", "no_choices", "no_choices_error",
    "no_choices_message", "no_choices_both" }

\* C21: for an HTTP 200 response _parse_response returns the first choice's
\* message.content when present (also next to a text field), otherwise the
\* first choice's text, and raises LLMError in every other case: a first
\* choice with neither, missing or empty choices, an unparseable body.  With
\* missing or empty choices the message carries the error field, else the
\* message field, of the body.
C21_ParseShapes ==
  (AskDone /\ res.kind = "res" /\ res.status = 200) =>
     /\ res.body \in MessageBodies => ask_result = Ret(<<"hi from message">>)
     /\ res.body \in TextOnlyBodies => ask_result = Ret(<<"hi from text">>)
     /\ res.body \notin MessageBodies \cup TextOnlyBodies =>
          /\ ask_result.kind = "raise"
          /\ ask_result.exc = "LLMError"
     /\ res.body \in {"no_choices_error", "no_choices_both"} =>
          ask_result.value = <<"LLM returned no choices. Info: ", "quota exceeded">>
     /\ res.body = "no_choices_message" =>
          ask_result.value = <<"LLM returned no choices. Info: ", "model not found">>

(***************************************************************************)
(* Hinglish heuristic: properties                                          *)
(***************************************************************************)
\* C22: detect_language returns hinglish exactly when the stripped text is
\* non-empty, all ASCII, and its lowercase form contains a marker token,
\* whatever the detector would answer; a text with a non-ASCII character or
\* without a marker token is never tagged hinglish.
C22_HinglishIffMarker ==
  FnReturned("detect_language") =>
     (call_out.value = "hinglish" <=>
        /\ StripText(call_arg.text) # ""
        /\ IsAscii(call_arg.text)
        /\ MarkersIn(call_arg.text) # {})

W_C22 ==
  /\ FnReturned("detect_language")
  /\ call_arg.text = "my name is Sam"
  /\ call_arg.detector = Ret("en")
  /\ call_out.value = "hinglish"

(***************************************************************************)
(* Keyword step: properties                                                *)
(***************************************************************************)
\* neither the address rule nor the identifier rule yields a tenant
NoTableTenant(msg) ==
  /\ EntryTenant(AddressEntries(msg)) = NoneStr
  /\ EntryTenant(IdentifierEntries(msg.to)) = NoneStr
  /\ EntryTenant(IdentifierEntries(msg.from)) = NoneStr

\* C23: when the keyword step of identify_customer decides, a text with
\* keywords of several tenants resolves to the tenant of the first
\* KEYWORD_MAP entry that has a keyword in the text, wherever the keywords
\* stand in the text; a text without any keyword resolves to "default"; and
\* identify_customer never returns None or an empty id.
C23_KeywordTableOrder ==
  FnReturned("identify_customer") =>
     /\ call_out.value # NoneStr /\ call_out.value # ""
     /\ DOMAIN call_arg = {} => call_out.value = "default"
     /\ (DOMAIN call_arg # {} /\ NoTableTenant(call_arg)) =>
          /\ KeywordEntries(call_arg.text) = {} => call_out.value = "default"
          /\ \A i \in KeywordEntries(call_arg.text) :
               (\A j \in KeywordEntries(call_arg.text) : i <= j)
                 => call_out.value = KEYWORD_MAP[i].cid

\* "hair" stands before "pizza" in the text, the pizza entry before the hair
\* entry in the table
W_C23 ==
  /\ FnReturned("identify_customer")
  /\ DOMAIN call_arg # {}
  /\ NoTableTenant(call_arg)
  /\ call_arg.to = "+19990000000"
  /\ call_arg.text = "Haircut, then PIZZA"
  /\ call_out.value = "cafe_pune"

(***************************************************************************)
(* Process-wide objects: properties                                        *)
(***************************************************************************)
\* C24: in one process the embedder, the search client and the completion
\* client are each constructed at most once, however many requests arrive
\* and whether or not an earlier import failed; once the module is loaded
\* each name is bound to the one object constructed for it.
C24_ConstructedOnce ==
  /\ \A n \in Singletons : constructed[n] <= 1
  /\ rag_module = "loaded" => \A n \in Singletons : globals[n] = 1

(***************************************************************************)
(* Quota under concurrency: properties                                     *)
(***************************************************************************)
\* C25: with a working datastore and any interleaving of invocations of one
\* tenant within a month, at most free_leads_per_month leads are persisted
\* with overage = false, and every lead recorded when the quota was already
\* used up is flagged overage = true.
C25_QuotaUnderConcurrency ==
  /\ Cardinality({i \in DOMAIN rows : ~rows[i].overage}) <= LeadFree
  /\ \A i \in DOMAIN rows : i > LeadFree => rows[i].overage

(***************************************************************************)
(* Tenant keys: properties                                                 *)
(***************************************************************************)
\* C26: within one handle_message call the tenant id in the search
\* collection name, the id the monthly count is read for and the id stored
\* with the inserted lead are the same, for every requested id; and the
\* count is read for every lead that is inserted.
C26_SameTenantKey ==
  (Done /\ outcome = "returned") =>
     /\ \A i \in CallsOf("search") :
          /\ \A j \in CallsOf("get_monthly_lead_count") : calls[i].key[1] = calls[j].key
          /\ \A j \in CallsOf("save_lead_supabase") : calls[i].key[1] = calls[j].key
     /\ \A i \in CallsOf("get_monthly_lead_count") :
          \A j \in CallsOf("save_lead_supabase") : calls[i].key = calls[j].key
     /\ CallsOf("POST leads") # {} => CallsOf("GET leads") # {}
     /\ CallsOf("save_lead_supabase") # {} => CallsOf("get_monthly_lead_count") # {}

====
